---------------------------- MODULE Spec2Model ----------------------------
(***************************************************************************)
(* Knowledge-base retrieval and grounding tools of CaztonVoiceRagNoSqlApi  *)
(* (app/backend/ragtools.py, app/backend/app.py).                          *)
(*                                                                         *)
(* Python strings are modelled as sequences of one-character strings, so   *)
(* that slicing, strip(), isspace() and re.match act on characters.        *)
(***************************************************************************)
EXTENDS Integers, Sequences, FiniteSets, TLC

VARIABLES
    pc,            \* position of the process in app.py / attach_rag_tools_cosmosdb
    error,         \* the exception that ended the process, or "none"
    env_type,      \* os.getenv("COSMOSDB_VECTOR_EMBEDDINGS_TYPE") of this process
    malformed,     \* the .pdf files of pdf_dir that PDFPlumberLoader cannot load
    container,     \* the Cosmos DB container: {} when absent, else {its policies}
    store,         \* the items of the container (they outlive the process)
    documents,     \* add_pdf_documents' result, held by attach_rag_tools_cosmosdb
    vector_store,  \* the handle the tool lambdas close over, or "none"
    tools,         \* rtmt.tools: the names registered in the middleware
    runs,          \* process starts so far
    call,          \* per assistant session: the locals of its tool call
    text,          \* chunk_text's argument
    chunk_size,    \* chunk_text's argument
    overlap,       \* the overlap the splitting contract is stated for
    segments,      \* chunk_text's result
    split_done     \* whether chunk_text has returned

vars == <<pc, error, env_type, malformed, container, store, documents,
          vector_store, tools, runs, call, text, chunk_size, overlap,
          segments, split_done>>

lifecycle_vars == <<pc, error, env_type, malformed, container, store,
                    documents, vector_store, tools, runs>>

split_vars == <<text, chunk_size, overlap, segments, split_done>>

-----------------------------------------------------------------------------
(* Bounds of the model *)

\* process starts (the first start and the restarts) explored
MaxRuns == 2

\* longest text handed to chunk_text
MaxTextLen == 4

\* largest chunk_size handed to chunk_text
MaxChunkSize == 3

-----------------------------------------------------------------------------
(* Python string helpers *)

Min(a, b) == IF a < b THEN a ELSE b

\* s[:n] for n >= 0
SliceTo(s, n) == SubSeq(s, 1, Min(n, Len(s)))

\* s[i:j] for 0 <= i <= j (Python's zero-based, end-exclusive slice)
Slice(s, i, j) == SubSeq(s, i + 1, Min(j, Len(s)))

\* the ASCII characters str.isspace() and str.strip() treat as whitespace
Whitespace == {" ", "\t", "\n", "\r", "\f"}

\* str.isspace(): non-empty and every character is whitespace
isspace(s) == Len(s) > 0 /\ \A i \in 1..Len(s) : s[i] \in Whitespace

\* str.strip(): drop leading and trailing whitespace
strip(s) ==
    LET keep == {i \in 1..Len(s) : s[i] \notin Whitespace}
    IN  IF keep = {} THEN <<>>
        ELSE LET lo == CHOOSE i \in keep : \A j \in keep : i <= j
                 hi == CHOOSE i \in keep : \A j \in keep : j <= i
             IN  SubSeq(s, lo, hi)

\* the character class [a-zA-Z0-9_=\-]
ClassChars ==
    {"a","b","c","d","e","f","g","h","i","j","k","l","m",
     "n","o","p","q","r","s","t","u","v","w","x","y","z",
     "A","B","C","D","E","F","G","H","I","J","K","L","M",
     "N","O","P","Q","R","S","T","U","V","W","X","Y","Z",
     "0","1","2","3","4","5","6","7","8","9","_","=","-"}

\* re.match(r'^[a-zA-Z0-9_=\-]+$', s) is not None.  Without re.MULTILINE
\* Python's "$" matches at the end of the string and also just before a
\* newline that is the last character of the string.
re_match_allowlist(s) ==
    LET n == Len(s)
        body == IF n > 0 /\ s[n] = "\n" THEN SubSeq(s, 1, n - 1) ELSE s
    IN  \/ Len(s) > 0 /\ \A i \in 1..Len(s) : s[i] \in ClassChars
        \/ Len(body) > 0 /\ \A i \in 1..Len(body) : body[i] \in ClassChars

\* str(i) for i >= 0
RECURSIVE Decimal(_)
Decimal(i) ==
    LET digit == <<"0","1","2","3","4","5","6","7","8","9">>[(i % 10) + 1]
    IN  IF i < 10 THEN <<digit>> ELSE Decimal(i \div 10) \o <<digit>>

-----------------------------------------------------------------------------
(* chunk_text *)

\* list(range(0, n, step)) for step > 0
RangeStep(n, step) ==
    [k \in 1..((n + step - 1) \div step) |-> (k - 1) * step]

\* only the starts of full chunks: range(0, n - step + 1, step)
chunk_text_full_only(t, size) ==
    LET starts == RangeStep(IF Len(t) - size + 1 > 0 THEN Len(t) - size + 1 ELSE 0, size)
    IN  [k \in 1..Len(starts) |-> Slice(t, starts[k], starts[k] + size)]

\* [text[i:i + chunk_size] for i in range(0, len(text), chunk_size)]
chunk_text(t, size) ==
    LET starts == RangeStep(Len(t), size)
    IN  [k \in 1..Len(starts) |-> Slice(t, starts[k], starts[k] + size)]

-----------------------------------------------------------------------------
(* Policies and provisioning *)

\* the index types the deployment is switched between (ragtools.py comments)
EmbeddingTypes == {"diskANN", "quantizedFlat"}

\* the loop rebuilds the one-element list from element [0] on every pass
get_vector_indexing_policy(embedding_path, embedding_type) ==
    [indexingMode  |-> "consistent",
     includedPaths |-> <<"/*">>,
     excludedPaths |-> <<"/_etag/?">>,
     vectorIndexes |-> <<[path |-> embedding_path[1], type |-> embedding_type[1]]>>]

get_vector_embedding_policy(embedding_path, distance_function, data_type, dimensions) ==
    [vectorEmbeddings |->
        <<[path             |-> embedding_path[1],
           dataType         |-> data_type[1],
           dimensions       |-> dimensions[1],
           distanceFunction |-> distance_function[1]]>>]

\* the two policies attach_rag_tools_cosmosdb builds from the environment
indexing_policy == get_vector_indexing_policy(<<"/embedding">>, <<env_type>>)

vector_embedding_policy ==
    get_vector_embedding_policy(<<"/embedding">>, <<"cosine">>, <<"float32">>, <<1536>>)

ConfiguredContainer ==
    [indexing_policy         |-> indexing_policy,
     vector_embedding_policy |-> vector_embedding_policy]

\* database.create_container_if_not_exists(...): an existing container is
\* returned as it is, its policies are not compared with the arguments
create_container_if_not_exists(existing, wanted) ==
    IF existing = {} THEN {wanted} ELSE existing

-----------------------------------------------------------------------------
(* The source directory and add_pdf_documents *)

PdfSuffix == <<".", "p", "d", "f">>

ManualPdf == <<"m", ".", "p", "d", "f">>
FaqPdf    == <<"f", ".", "p", "d", "f">>
NotesTxt  == <<"n", ".", "t", "x", "t">>

\* os.listdir(pdf_dir)
DirListing == <<ManualPdf, NotesTxt, FaqPdf>>

\* str.endswith
endswith(s, suffix) ==
    /\ Len(s) >= Len(suffix)
    /\ SubSeq(s, Len(s) - Len(suffix) + 1, Len(s)) = suffix

PdfFiles == {DirListing[i] : i \in {j \in 1..Len(DirListing) : endswith(DirListing[j], PdfSuffix)}}

\* loader.load_and_split(text_splitter) of a loadable file: the page
\* contents the external loader and splitter hand back
LoadAndSplit(filename) ==
    IF filename = ManualPdf THEN << <<"a", "b">>, <<"c">> >>
    ELSE IF filename = FaqPdf THEN << <<"d">> >>
    ELSE <<>>

\* f"{filename}_chunk_{i}"
chunk_title(filename, i) ==
    filename \o <<"_", "c", "h", "u", "n", "k", "_">> \o Decimal(i)

\* the inner loop: metadata of each chunk of one file
file_documents(filename) ==
    LET loaded == LoadAndSplit(filename)
    IN  [k \in 1..Len(loaded) |->
            [page_content |-> loaded[k],
             metadata     |-> [title |-> chunk_title(filename, k - 1)]]]

\* the outer loop over os.listdir, from entry n on with the documents
\* collected so far; raised when a file cannot be loaded (the loader's
\* exception leaves add_pdf_documents, nothing catches it)
RECURSIVE add_pdf_documents_from(_, _, _)
add_pdf_documents_from(n, bad, acc) ==
    IF n > Len(DirListing) THEN [raised |-> FALSE, documents |-> acc]
    ELSE LET filename == DirListing[n]
         IN  IF ~endswith(filename, PdfSuffix)
             THEN add_pdf_documents_from(n + 1, bad, acc)
             ELSE IF filename \in bad
             THEN [raised |-> TRUE, documents |-> acc]
             ELSE add_pdf_documents_from(n + 1, bad, acc \o file_documents(filename))

add_pdf_documents(bad) == add_pdf_documents_from(1, bad, <<>>)

-----------------------------------------------------------------------------
(* AzureCosmosDBNoSqlVectorSearch.from_documents *)

\* the ids of the stored items
StoreIds(items) == {it.id : it \in items}

\* str(uuid.uuid4()): a value no stored item has.  Ids are only compared for
\* equality, so the fresh value is named by the next unused number.
uuid4(items) ==
    IF items = {} THEN 1
    ELSE 1 + CHOOSE m \in StoreIds(items) : \A x \in StoreIds(items) : x <= m

\* the id of the item written for doc
new_item_id(items, doc) == uuid4(items)

\* create_item for the first n documents, in order
RECURSIVE insert_texts(_, _, _)
insert_texts(items, docs, n) ==
    IF n = 0 THEN items
    ELSE LET before == insert_texts(items, docs, n - 1)
             doc == docs[n]
             id == new_item_id(before, doc)
         IN  {it \in before : it.id # id} \cup
             {[id |-> id, text |-> doc.page_content, metadata |-> doc.metadata]}

-----------------------------------------------------------------------------
(* Process start-up: app.py and attach_rag_tools_cosmosdb *)

IdleCall ==
    [pc |-> "idle", tool |-> "none", query |-> "", sources |-> <<>>,
     valid_sources |-> <<>>, next |-> 1, looked_up |-> <<>>,
     results |-> <<>>, search_results |-> <<>>, returned |-> <<>>,
     payload |-> <<>>]

Sessions == {"s1", "s2"}

\* check_and_create_cosmosdb_database_container returns
Provision ==
    /\ pc = "start"
    /\ container' = create_container_if_not_exists(container, ConfiguredContainer)
    /\ pc' = "provisioned"
    /\ UNCHANGED <<error, env_type, malformed, store, documents, vector_store,
                   tools, runs, call>>
    /\ UNCHANGED split_vars

\* the Cosmos DB account cannot be reached: the SDK's exception ends the process
ProvisionFails ==
    /\ pc = "start"
    /\ pc' = "crashed"
    /\ error' = "CosmosHttpResponseError"
    /\ UNCHANGED <<env_type, malformed, container, store, documents,
                   vector_store, tools, runs, call>>
    /\ UNCHANGED split_vars

\* documents = add_pdf_documents(pdf_dir)
LoadDocuments ==
    /\ pc = "provisioned"
    /\ LET docs == add_pdf_documents(malformed)
       IN  IF docs.raised
           THEN /\ pc' = "crashed"
                /\ error' = "PdfLoadError"
                /\ UNCHANGED documents
           ELSE /\ pc' = "loaded"
                /\ documents' = docs.documents
                /\ UNCHANGED error
    /\ UNCHANGED <<env_type, malformed, container, store, vector_store, tools,
                   runs, call>>
    /\ UNCHANGED split_vars

\* vector_store = AzureCosmosDBNoSqlVectorSearch.from_documents(...)
FromDocuments ==
    /\ pc = "loaded"
    /\ store' = insert_texts(store, documents, Len(documents))
    /\ vector_store' = "handle"
    /\ pc' = "ingested"
    /\ UNCHANGED <<error, env_type, malformed, container, documents, tools,
                   runs, call>>
    /\ UNCHANGED split_vars

\* the embedding provider or the store fails during from_documents: the
\* items written before the failure stay, the exception ends the process
FromDocumentsFails ==
    /\ pc = "loaded"
    /\ \E n \in 0..(Len(documents) - 1) :
          store' = insert_texts(store, documents, n)
    /\ pc' = "crashed"
    /\ error' = "EmbeddingOrStoreError"
    /\ UNCHANGED <<env_type, malformed, container, documents, vector_store,
                   tools, runs, call>>
    /\ UNCHANGED split_vars

\* the tools are registered right after provisioning, before ingestion
RegisterToolsEarly ==
    /\ pc = "provisioned"
    /\ tools' = tools \cup {"search", "report_grounding"}
    /\ pc' = "attached"
    /\ UNCHANGED <<error, env_type, malformed, container, store, documents,
                   vector_store, runs, call>>
    /\ UNCHANGED split_vars

\* rtmt.tools["search"] = ...; rtmt.tools["report_grounding"] = ...
RegisterTools ==
    /\ pc = "ingested"
    /\ tools' = tools \cup {"search", "report_grounding"}
    /\ pc' = "attached"
    /\ UNCHANGED <<error, env_type, malformed, container, store, documents,
                   vector_store, runs, call>>
    /\ UNCHANGED split_vars

\* rtmt.attach_to_app(app, "/realtime"); web.run_app(app, ...)
RunApp ==
    /\ pc = "attached"
    /\ pc' = "serving"
    /\ UNCHANGED <<error, env_type, malformed, container, store, documents,
                   vector_store, tools, runs, call>>
    /\ UNCHANGED split_vars

\* the process ends (it crashed, or the server is stopped) and app.py is run
\* again over the same directory; the container and its items are kept
Restart ==
    /\ pc \in {"crashed", "serving"}
    /\ runs < MaxRuns
    /\ runs' = runs + 1
    /\ pc' = "start"
    /\ error' = "none"
    /\ \E t \in EmbeddingTypes : env_type' = t
    /\ documents' = <<>>
    /\ vector_store' = "none"
    /\ tools' = {}
    /\ call' = [s \in Sessions |-> IdleCall]
    /\ UNCHANGED <<malformed, container, store>>
    /\ UNCHANGED split_vars

-----------------------------------------------------------------------------
(* The vector store's similarity search *)

\* top-K of vector_store.similarity_search(query): k is left at its default
TopK == 4

\* the sequences without repetition of at most n elements of S
RECURSIVE InjectiveSeqs(_, _)
InjectiveSeqs(S, n) ==
    IF n = 0 THEN {<<>>}
    ELSE LET shorter == InjectiveSeqs(S, n - 1)
         IN  shorter \cup
             {Append(q, x) : <<q, x>> \in
                 {<<q, x>> \in {r \in shorter : Len(r) = n - 1} \X S :
                     \A i \in 1..Len(q) : q[i] # x}}

\* docs = vector_store.similarity_search(query): what the backend may hand
\* back, the page contents of at most TopK stored items in rank order.  The
\* ranking is the backend's (embedding distance); every ranking is allowed.
similarity_search(items) ==
    {[i \in 1..Len(q) |-> q[i].text] :
        q \in InjectiveSeqs(items, Min(TopK, Cardinality(items)))}

-----------------------------------------------------------------------------
(* _search_tool *)

SearchLimit == 2000

\* the slice keeps one character less
truncate_search_short(page_content) ==
    IF Len(page_content) > SearchLimit
    THEN SliceTo(page_content, SearchLimit - 1)
    ELSE page_content

\* doc.page_content[:2000] if len(doc.page_content) > 2000 else doc.page_content
truncate_search(page_content) ==
    IF Len(page_content) > SearchLimit
    THEN SliceTo(page_content, SearchLimit)
    ELSE page_content

\* the label counts from one
search_entry_from_one(i, page_content) ==
    <<"[", "d", "o", "c", "_">> \o Decimal(i + 1)
        \o <<"]", ":", " ", "C", "o", "n", "t", "e", "n", "t", ":", " ">>
        \o truncate_search(page_content)
        \o <<"\n", "-", "-", "-", "-", "-", "\n">>

\* f"[doc_{i}]: Content: {truncated_content}\n-----\n"
search_entry(i, page_content) ==
    <<"[", "d", "o", "c", "_">> \o Decimal(i)
        \o <<"]", ":", " ", "C", "o", "n", "t", "e", "n", "t", ":", " ">>
        \o truncate_search(page_content)
        \o <<"\n", "-", "-", "-", "-", "-", "\n">>

\* for i, doc in enumerate(results): result_str += ..., from position n on
RECURSIVE search_loop(_, _, _)
search_loop(results, n, result_str) ==
    IF n > Len(results) THEN result_str
    ELSE search_loop(results, n + 1, result_str \o search_entry(n - 1, results[n]))

\* the empty string is handed back as it is
search_sentinel_missing(result_str) == result_str

\* if not result_str or result_str.isspace(): result_str = "1"
search_sentinel(result_str) ==
    IF result_str = <<>> \/ isspace(result_str) THEN <<"1">> ELSE result_str

\* the payload of ToolResult(result_str, ToolResultDirection.TO_SERVER)
search_payload(results) == search_sentinel(search_loop(results, 1, <<>>))

-----------------------------------------------------------------------------
(* _report_grounding_tool *)

GroundingLimit == 200

\* [s for s in sources if re.match(r'^[a-zA-Z0-9_=\-]+$', s)]
valid_sources_of(sources) == SelectSeq(sources, LAMBDA s : re_match_allowlist(s))

\* f"[{result['content'][:200]}...\n-----\n"
grounding_entry(content) ==
    <<"[">> \o SliceTo(content, GroundingLimit)
        \o <<".", ".", ".", "\n", "-", "-", "-", "-", "-", "\n">>

\* for result in search_results: result_str += ..., from position n on
RECURSIVE grounding_loop(_, _, _)
grounding_loop(search_results, n, result_str) ==
    IF n > Len(search_results) THEN result_str
    ELSE grounding_loop(search_results, n + 1,
                        result_str \o grounding_entry(search_results[n]))

\* if not result_str or result_str.isspace(): result_str = "1"
grounding_sentinel(result_str) ==
    IF result_str = <<>> \/ isspace(result_str) THEN <<"1">> ELSE result_str

\* the payload of ToolResult(result_str.strip(), ToolResultDirection.TO_SERVER)
grounding_payload(search_results) ==
    strip(grounding_sentinel(grounding_loop(search_results, 1, <<>>)))

\* the list of an earlier call is kept
search_results_carried(previous) == previous

\* search_results = []: the list is a local of the call
new_search_results(previous) == <<>>

-----------------------------------------------------------------------------
(* Tool calls of the serving phase *)

\* the middleware finds the tool in its table and calls its target
ToolCallable(name) ==
    /\ pc = "serving"
    /\ name \in tools
    /\ vector_store = "handle"

\* _search_tool up to the return of vector_search
SearchCall(s, q) ==
    /\ ToolCallable("search")
    /\ call[s].pc \in {"idle", "done"}
    /\ \E docs \in similarity_search(store) :
          call' = [call EXCEPT ![s] =
                      [IdleCall EXCEPT !.pc = "search", !.tool = "search",
                                       !.query = q, !.looked_up = <<q>>,
                                       !.results = docs, !.returned = docs]]
    /\ UNCHANGED lifecycle_vars
    /\ UNCHANGED split_vars

\* _search_tool from the formatting loop to its return
SearchReturn(s) ==
    /\ call[s].pc = "search"
    /\ call' = [call EXCEPT ![s].payload = search_payload(call[s].results),
                            ![s].pc = "done"]
    /\ UNCHANGED lifecycle_vars
    /\ UNCHANGED split_vars

\* _report_grounding_tool up to the lookup loop
GroundingCall(s, sources) ==
    /\ ToolCallable("report_grounding")
    /\ call[s].pc \in {"idle", "done"}
    /\ call' = [call EXCEPT ![s] =
                  [IdleCall EXCEPT !.pc = "grounding", !.tool = "report_grounding",
                                   !.sources = sources,
                                   !.valid_sources = valid_sources_of(sources),
                                   !.search_results =
                                       new_search_results(call[s].search_results)]]
    /\ UNCHANGED lifecycle_vars
    /\ UNCHANGED split_vars

\* one pass of "for source in valid_sources": a lookup and its appends
GroundingLookup(s) ==
    /\ call[s].pc = "grounding"
    /\ call[s].next <= Len(call[s].valid_sources)
    /\ \E docs \in similarity_search(store) :
          call' = [call EXCEPT
                      ![s].looked_up = Append(@, call[s].valid_sources[call[s].next]),
                      ![s].search_results = @ \o docs,
                      ![s].returned = @ \o docs,
                      ![s].next = @ + 1]
    /\ UNCHANGED lifecycle_vars
    /\ UNCHANGED split_vars

\* _report_grounding_tool from the formatting loop to its return
GroundingReturn(s) ==
    /\ call[s].pc = "grounding"
    /\ call[s].next > Len(call[s].valid_sources)
    /\ call' = [call EXCEPT
                  ![s].payload = grounding_payload(call[s].search_results),
                  ![s].pc = "done"]
    /\ UNCHANGED lifecycle_vars
    /\ UNCHANGED split_vars

-----------------------------------------------------------------------------
(* Inputs of the tool calls *)

Queries == {"installation", "warranty"}

Doc0          == <<"d", "o", "c", "_", "0">>
Doc0Injection == Doc0 \o <<";", " ", "r", "m", " ", "-", "r", "f">>
Doc0Newline   == Doc0 \o <<"\n">>
KeyLike       == <<"a", "=", "-">>

SourceNames == {Doc0, Doc0Injection, Doc0Newline, KeyLike, <<>>}

\* the sources arrays of at most n entries
SourceLists(n) ==
    UNION {[1..k -> SourceNames] : k \in 0..n}

\* a text of n characters whose prefixes differ from its other substrings
LongText(n) == [i \in 1..n |-> IF i % 7 = 0 THEN "z" ELSE IF i % 2 = 0 THEN "y" ELSE "x"]

Item(id, content) ==
    [id |-> id, text |-> content, metadata |-> [title |-> <<"t">> \o Decimal(id)]]

\* stored chunks around the two truncation limits, and a blank one
LimitItems ==
    {Item(1, <<"a", "b", "c">>), Item(2, <<" ">>),
     Item(3, LongText(GroundingLimit)), Item(4, LongText(GroundingLimit + 1)),
     Item(5, LongText(SearchLimit)), Item(6, LongText(SearchLimit + 1))}

\* the knowledge bases the tools are tried on: none, one or two chunks, the
\* two chunks at most one limit apart
LimitStores ==
    {S \in SUBSET LimitItems :
        /\ Cardinality(S) <= 2
        /\ \A x, y \in S : x.id - y.id <= 2}

\* the sources arrays of interleaved calls
ServeSourceLists ==
    {<<>>, <<Doc0>>, <<Doc0Injection, KeyLike>>, <<Doc0, KeyLike>>}

\* small knowledge bases for interleaved calls
SmallStores ==
    {{}, {Item(1, <<"a">>)}, {Item(1, <<"a">>), Item(2, <<"b">>)}}

-----------------------------------------------------------------------------
(* Specifications *)

SplitIdle ==
    /\ text = <<>>
    /\ chunk_size = 1
    /\ overlap = 0
    /\ segments = <<>>
    /\ split_done = FALSE

\* app.py is started for the first time: no container yet
Init ==
    /\ pc = "start"
    /\ error = "none"
    /\ env_type \in EmbeddingTypes
    /\ malformed \in SUBSET PdfFiles
    /\ container = {}
    /\ store = {}
    /\ documents = <<>>
    /\ vector_store = "none"
    /\ tools = {}
    /\ runs = 1
    /\ call = [s \in Sessions |-> IdleCall]
    /\ SplitIdle

Next ==
    \/ Provision
    \/ ProvisionFails
    \/ LoadDocuments
    \/ FromDocuments
    \/ FromDocumentsFails
    \/ RegisterTools
    \/ RunApp
    \/ Restart
    \/ SearchCall("s1", "installation")
    \/ SearchReturn("s1")
    \/ \E sources \in {<<>>, <<Doc0>>, <<Doc0Injection>>} : GroundingCall("s1", sources)
    \/ GroundingLookup("s1")
    \/ GroundingReturn("s1")

Spec == Init /\ [][Next]_vars

\* the serving phase over a knowledge base K
Serving(K) ==
    /\ pc = "serving"
    /\ error = "none"
    /\ env_type \in EmbeddingTypes
    /\ malformed = {}
    /\ container = {ConfiguredContainer}
    /\ store \in K
    /\ documents = <<>>
    /\ vector_store = "handle"
    /\ tools = {"search", "report_grounding"}
    /\ runs = 1
    /\ call = [s \in Sessions |-> IdleCall]
    /\ SplitIdle

\* one session calling the tools on chunks around the truncation limits
InitTools == Serving(LimitStores)

NextTools ==
    \/ \E q \in Queries : SearchCall("s1", q)
    \/ SearchReturn("s1")
    \/ \E sources \in SourceLists(2) : GroundingCall("s1", sources)
    \/ GroundingLookup("s1")
    \/ GroundingReturn("s1")

SpecTools == InitTools /\ [][NextTools]_vars

\* assistant sessions calling the tools at the same time
InitServe == Serving(SmallStores)

NextServe ==
    \E s \in Sessions :
        \/ \E q \in Queries : SearchCall(s, q)
        \/ SearchReturn(s)
        \/ \E sources \in ServeSourceLists : GroundingCall(s, sources)
        \/ GroundingLookup(s)
        \/ GroundingReturn(s)

SpecServe == InitServe /\ [][NextServe]_vars

\* chunk_text(text, chunk_size) returns
Split ==
    /\ ~split_done
    /\ segments' = chunk_text(text, chunk_size)
    /\ split_done' = TRUE
    /\ UNCHANGED <<text, chunk_size, overlap>>
    /\ UNCHANGED lifecycle_vars
    /\ UNCHANGED call

\* the texts of at most n characters
Texts(n) == UNION {[1..k -> {"a", "b"}] : k \in 0..n}

InitSplit ==
    /\ pc = "start"
    /\ error = "none"
    /\ env_type = "diskANN"
    /\ malformed = {}
    /\ container = {}
    /\ store = {}
    /\ documents = <<>>
    /\ vector_store = "none"
    /\ tools = {}
    /\ runs = 1
    /\ call = [s \in Sessions |-> IdleCall]
    /\ text \in Texts(MaxTextLen)
    /\ chunk_size \in 1..MaxChunkSize
    /\ overlap \in 0..(chunk_size - 1)
    /\ segments = <<>>
    /\ split_done = FALSE

NextSplit == Split

SpecSplit == InitSplit /\ [][NextSplit]_vars

-----------------------------------------------------------------------------
(* Properties *)

\* the first n characters of c, all of c when it is shorter
PrefixOf(c, n) == [i \in 1..(IF Len(c) <= n THEN Len(c) ELSE n) |-> c[i]]

\* every character of x is one of [A-Za-z0-9_=-] and x is not empty
StrictlyAllowListed(x) == Len(x) >= 1 /\ \A i \in 1..Len(x) : x[i] \in ClassChars

\* the stored (id, content) pairs
IdsAndContents(items) == {<<it.id, it.text>> : it \in items}

\* the store holds exactly the chunks of one ingestion run over the directory
PopulatedByOneRun ==
    /\ Cardinality(store) = Len(documents)
    /\ \A i \in 1..Len(documents) :
          \E it \in store : /\ it.metadata = documents[i].metadata
                            /\ it.text = documents[i].page_content

\* C1: re-ingestion is idempotent: an ingestion run over the unchanged
\* directory, started on a store that one earlier run populated, leaves the
\* stored chunk ids and their contents as they were.
C1_ReingestionIdempotent ==
    [][(pc = "loaded" /\ pc' = "ingested" /\ PopulatedByOneRun)
          => IdsAndContents(store') = IdsAndContents(store)]_vars

\* C2: report_grounding issues a lookup only for entries made of one or more
\* characters of [A-Za-z0-9_=-]; any other entry is never looked up, and
\* when the call returns exactly the allow-listed entries were looked up.
C2_OnlyAllowListedLookedUp ==
    \A s \in Sessions :
        call[s].tool = "report_grounding" =>
            /\ \A i \in 1..Len(call[s].looked_up) :
                  StrictlyAllowListed(call[s].looked_up[i])
            /\ call[s].pc = "done" =>
                  call[s].looked_up =
                      SelectSeq(call[s].sources, LAMBDA x : StrictlyAllowListed(x))

\* C3: a search whose similarity search returned nothing returns exactly
\* "1"; so does report_grounding when no source survived or no lookup
\* returned a passage; no call returns the empty string.
C3_SentinelOnNoResults ==
    \A s \in Sessions :
        call[s].pc = "done" =>
            /\ call[s].payload # <<>>
            /\ (call[s].tool = "search" /\ call[s].results = <<>>)
                  => call[s].payload = <<"1">>
            /\ (call[s].tool = "report_grounding"
                  /\ (call[s].valid_sources = <<>> \/ call[s].returned = <<>>))
                  => call[s].payload = <<"1">>

C3_Witness ==
    \E s \in Sessions :
        /\ call[s].pc = "done"
        /\ call[s].tool = "search"
        /\ store # {}
        /\ call[s].results = <<>>
        /\ call[s].payload = <<"1">>

\* the length of "[doc_i]: Content: " for i < 10, and of "\n-----\n"
SearchHeadLen == Len(<<"[", "d", "o", "c", "_", "0", "]", ":", " ",
                       "C", "o", "n", "t", "e", "n", "t", ":", " ">>)
SearchTailLen == Len(<<"\n", "-", "-", "-", "-", "-", "\n">>)

\* the length of "[" and of "...\n-----\n"
GroundingHeadLen == Len(<<"[">>)
GroundingTailLen == Len(<<".", ".", ".", "\n", "-", "-", "-", "-", "-", "\n">>)

\* where entry k starts in a payload of entries head + segment + tail, the
\* segment of entry j being at most limit characters of docs[j]
RECURSIVE EntryStart(_, _, _, _, _)
EntryStart(docs, k, head, tail, limit) ==
    IF k = 1 THEN 0
    ELSE EntryStart(docs, k - 1, head, tail, limit)
            + head + Len(PrefixOf(docs[k - 1], limit)) + tail

\* the content segment of entry k, read off the payload
SegmentAt(payload, docs, k, head, tail, limit) ==
    LET from == EntryStart(docs, k, head, tail, limit) + head
    IN  SubSeq(payload, from + 1, from + Len(PrefixOf(docs[k], limit)))

\* C4: the content segment search emits for a chunk is its prefix of at most
\* 2000 characters, the one report_grounding emits is its prefix of at most
\* 200 characters; a chunk within the bound is emitted unchanged.
C4_TruncationBound ==
    \A s \in Sessions :
        call[s].pc = "done" =>
            /\ (call[s].tool = "search" /\ call[s].results # <<>>) =>
                  LET docs == call[s].results
                  IN  /\ Len(call[s].payload) =
                            EntryStart(docs, Len(docs) + 1, SearchHeadLen,
                                       SearchTailLen, 2000)
                      /\ \A k \in 1..Len(docs) :
                            LET seg == SegmentAt(call[s].payload, docs, k,
                                                 SearchHeadLen, SearchTailLen, 2000)
                            IN  /\ Len(seg) <= 2000
                                /\ seg = PrefixOf(docs[k], 2000)
                                /\ Len(docs[k]) <= 2000 => seg = docs[k]
            /\ (call[s].tool = "report_grounding" /\ call[s].returned # <<>>) =>
                  LET docs == call[s].returned
                  IN  /\ Len(call[s].payload) + 1 =
                            EntryStart(docs, Len(docs) + 1, GroundingHeadLen,
                                       GroundingTailLen, 200)
                      /\ \A k \in 1..Len(docs) :
                            LET seg == SegmentAt(call[s].payload, docs, k,
                                                 GroundingHeadLen, GroundingTailLen, 200)
                            IN  /\ Len(seg) <= 200
                                /\ seg = PrefixOf(docs[k], 200)
                                /\ Len(docs[k]) <= 200 => seg = docs[k]

C4_Witness ==
    \E s \in Sessions :
        /\ call[s].pc = "done"
        /\ call[s].tool = "search"
        /\ \E k \in 1..Len(call[s].results) : Len(call[s].results[k]) > 2000
        /\ \E k \in 1..Len(call[s].results) : Len(call[s].results[k]) = 2000

\* "[doc_i]: Content: " + at most 2000 characters of content + "\n-----\n"
ExpectedSearchEntry(i, content) ==
    <<"[", "d", "o", "c", "_">> \o Decimal(i) \o <<"]", ":", " ">>
        \o <<"C", "o", "n", "t", "e", "n", "t", ":", " ">>
        \o PrefixOf(content, 2000) \o <<"\n", "-", "-", "-", "-", "-", "\n">>

\* the entries of r_0 .. r_{n-1}, in that order
RECURSIVE ExpectedSearchPayload(_)
ExpectedSearchPayload(results) ==
    IF results = <<>> THEN <<>>
    ELSE ExpectedSearchPayload(SubSeq(results, 1, Len(results) - 1))
            \o ExpectedSearchEntry(Len(results) - 1, results[Len(results)])

\* C5: for a non-empty result list the search payload is the concatenation,
\* in rank order, of "[doc_i]: Content: " + truncated content + "\n-----\n",
\* the label being the rank position: the top result is labelled doc_0 and
\* comes first.
C5_SearchPayloadFormat ==
    \A s \in Sessions :
        (call[s].pc = "done" /\ call[s].tool = "search" /\ call[s].results # <<>>) =>
            /\ call[s].payload = ExpectedSearchPayload(call[s].results)
            /\ SubSeq(call[s].payload, 1, SearchHeadLen) =
                  <<"[", "d", "o", "c", "_", "0", "]", ":", " ",
                    "C", "o", "n", "t", "e", "n", "t", ":", " ">>

C5_Witness ==
    \E s \in Sessions :
        /\ call[s].pc = "done"
        /\ call[s].tool = "search"
        /\ Len(call[s].results) >= 2
        /\ call[s].results[1] # call[s].results[2]

\* every chunk of file f is in the store
FileStored(f) ==
    \A k \in 1..Len(LoadAndSplit(f)) :
        \E it \in store : /\ it.metadata.title = chunk_title(f, k - 1)
                          /\ it.text = LoadAndSplit(f)[k]

\* C6: when a PDF of the directory fails to load, the run is not aborted:
\* every other PDF of the directory is still chunked and written to the
\* store by the time the run ends.
C6_LoadFailureIsolated ==
    error = "PdfLoadError" => \A f \in PdfFiles \ malformed : FileStored(f)

\* ceil(a / b) for b > 0
CeilDiv(a, b) == -((-a) \div b)

\* the segments joined with the first o characters of each later one removed
RECURSIVE JoinWithoutOverlap(_, _)
JoinWithoutOverlap(segs, o) ==
    IF segs = <<>> THEN <<>>
    ELSE IF Len(segs) = 1 THEN segs[1]
    ELSE JoinWithoutOverlap(SubSeq(segs, 1, Len(segs) - 1), o)
            \o SubSeq(segs[Len(segs)], o + 1, Len(segs[Len(segs)]))

C8_PolicyConflictDetected ==
    pc \in {"provisioned", "loaded", "ingested", "attached", "serving"}
        => container = {ConfiguredContainer}

\* every chunk of every PDF of the directory is in the store
DirectoryIngested == \A f \in PdfFiles : FileStored(f)

\* C9: the tools are in the tool table only once the container is
\* provisioned and every document is ingested; the server accepts calls only
\* with both tools registered; when start-up fails no tool is registered and
\* no call is served.
C9_LifecycleOrdering ==
    /\ tools # {} =>
          /\ container # {}
          /\ vector_store = "handle"
          /\ DirectoryIngested
          /\ error = "none"
    /\ pc = "serving" => tools = {"search", "report_grounding"}
    /\ \A s \in Sessions :
          call[s].pc # "idle" =>
              /\ pc = "serving"
              /\ tools = {"search", "report_grounding"}
              /\ DirectoryIngested
    /\ error # "none" =>
          /\ tools = {}
          /\ \A s \in Sessions : call[s].pc = "idle"

C9_Witness ==
    /\ pc = "serving"
    /\ runs = 2
    /\ call["s1"].pc = "done"
    /\ call["s1"].tool = "report_grounding"
    /\ call["s1"].returned # <<>>

\* "[" + at most 200 characters of each passage + "...\n-----\n", stripped
RECURSIVE ExpectedGroundingText(_)
ExpectedGroundingText(passages) ==
    IF passages = <<>> THEN <<>>
    ELSE ExpectedGroundingText(SubSeq(passages, 1, Len(passages) - 1))
            \o <<"[">> \o PrefixOf(passages[Len(passages)], 200)
            \o <<".", ".", ".", "\n", "-", "-", "-", "-", "-", "\n">>

\* what the call returns when it runs alone and the store answers its
\* lookups with docs
PayloadAlone(tool, docs) ==
    IF docs = <<>> THEN <<"1">>
    ELSE IF tool = "search" THEN ExpectedSearchPayload(docs)
    ELSE LET t == ExpectedGroundingText(docs) IN SubSeq(t, 1, Len(t) - 1)

\* C10: serving calls only read: no step of an interleaving of search and
\* report_grounding calls changes the store, and each call returns the
\* payload its own arguments and its own lookups determine, whatever ran
\* before or alongside it.
C10_ServingIsPureRead ==
    /\ [](\A s \in Sessions :
            call[s].pc = "done" =>
                call[s].payload = PayloadAlone(call[s].tool, call[s].returned))
    /\ [][store' = store /\ container' = container]_vars

C10_Witness ==
    \E s, t \in Sessions :
        /\ s # t
        /\ call[s].pc = "done"
        /\ call[s].tool = "report_grounding"
        /\ call[s].returned # <<>>
        /\ call[t].pc = "grounding"
        /\ call[t].next > 1
        /\ call[t].search_results # call[s].search_results

=============================================================================
